---- MODULE Spec2Model ----
(***************************************************************************)
(* The evaluation pipeline of the notebook "Statistical Modeling and       *)
(* Machine Learning": train/test split, linear estimators (fit, predict,   *)
(* coef_, intercept_), r2_score and the k-fold cross-validation sweep.     *)
(*                                                                         *)
(* Numbers are exact rationals <<n, d>> (d > 0, lowest terms); feature     *)
(* matrices have one column, so every fit has a closed form.               *)
(***************************************************************************)
EXTENDS Integers, Sequences, FiniteSets, TLC

VARIABLES
    pc,                \* the notebook cell that runs next (or the phase of a harness)
    random_state,      \* the seed literal passed as random_state=
    n_splits,          \* the fold count passed as n_splits=
    np_random,         \* state of numpy's global random generator
    df_nyc,            \* the NYC table: [X, y]
    california,        \* the California bunch: [X, y]
    X_train, X_test,   \* the names bound by train_test_split
    y_train, y_test,
    split_idx,         \* per split cell, the sample numbers behind the four names
    heap,              \* the estimator objects created so far, by object id
    linear_regression, \* object id bound to the name linear_regression (0: unbound)
    estimators,        \* the estimators mapping: sequence of <<name, object id>>
    expected,          \* the name `expected`   (sequence of rationals)
    predicted,         \* the name `predicted`  (sequence of rationals)
    r2,                \* the value of the last metrics.r2_score(...) call
    cv_results,        \* per finished sweep iteration: folds used, scores, objects fitted
    kfolds_built,      \* how many KFold partitions the sweep has computed
    printed,           \* what the last cell printed or displayed
    raised,            \* the exception that stopped execution ("" if none)
    last_call,         \* the last estimator call: operation, object id, result
    tasks,             \* the (estimator, fold) evaluations of a sweep run in any order
    env,               \* the library release in use and the calls that raise in it
    predict_fn,        \* the name `predict` of the lambda cell
    shape              \* <<rows, columns>> of the split table, of X_train and of X_test

data_vars == <<random_state, n_splits, df_nyc, california>>
split_vars == <<X_train, X_test, y_train, y_test, split_idx>>
est_vars == <<heap, linear_regression, estimators>>
score_vars == <<expected, predicted, r2>>

sweep_vars == <<cv_results, kfolds_built>>
out_vars == <<printed, raised>>

ghost_vars == <<last_call, tasks>>
aux_vars == <<env, predict_fn, shape>>

vars == <<pc, data_vars, np_random, split_vars, est_vars, score_vars, sweep_vars,
          out_vars, ghost_vars, aux_vars>>

(***************************************************************************)
(* Bounds of the model.                                                    *)
(***************************************************************************)
MaxLen == 3        \* longest sequence handed to r2_score by the scorer harness
MaxScoreVal == 2   \* the scorer harness draws values from 0..MaxScoreVal
MaxSamples == 6    \* largest dataset
MaxSeed == 0       \* seeds are drawn from 0..MaxSeed and the notebook's literal
MaxFolds == 3      \* fold counts are drawn from 2..MaxFolds

\* smallest dataset: the default fraction then holds out two samples
MaxCount == 20     \* sample counts of a split are drawn from 4..MaxCount
MaxReruns == 1     \* times the prediction cell is run again out of order
MaxObjects == 2    \* estimator objects a client of the estimators constructs
MinSamples == 4 + 1

(***************************************************************************)
(* Exact rational arithmetic.                                              *)
(***************************************************************************)
Abs(i) == IF i < 0 THEN -i ELSE i

RECURSIVE Gcd(_, _)
Gcd(a, b) == IF b = 0 THEN a ELSE Gcd(b, a % b)

\* the rational n/d in lowest terms with a positive denominator (d # 0)
Norm(n, d) ==
    LET g == Gcd(Abs(n), Abs(d))
        s == IF d < 0 THEN -1 ELSE 1
    IN  <<(s * n) \div g, (s * d) \div g>>

RInt(i) == <<i, 1>>
\* sums over the least common denominator, products after cancelling
\* across, so that intermediate integers stay small
RAdd(a, b) ==
    LET g == Gcd(a[2], b[2])
    IN  Norm(a[1] * (b[2] \div g) + b[1] * (a[2] \div g), (a[2] \div g) * b[2])
RNeg(a) == <<-a[1], a[2]>>
RSub(a, b) == RAdd(a, RNeg(b))
RMul(a, b) ==
    LET g == Gcd(Abs(a[1]), b[2])
        h == Gcd(Abs(b[1]), a[2])
    IN  Norm((a[1] \div g) * (b[1] \div h), (a[2] \div h) * (b[2] \div g))
RDiv(a, b) == RMul(a, IF b[1] < 0 THEN <<-b[2], -b[1]>> ELSE <<b[2], b[1]>>)
RLe(a, b) == a[1] * b[2] <= b[1] * a[2]
RLt(a, b) == a[1] * b[2] < b[1] * a[2]
RZero == RInt(0)
ROne == RInt(1)

RECURSIVE RSum(_)
RSum(s) == IF s = <<>> THEN RZero ELSE RAdd(s[1], RSum(Tail(s)))

RSq(a) == RMul(a, a)

\* np.average(y): the arithmetic mean of a non-empty sequence
Average(s) == RDiv(RSum(s), RInt(Len(s)))

(***************************************************************************)
(* metrics.r2_score(y_true, y_pred), as sklearn computes it.               *)
(***************************************************************************)
NoScore == [kind |-> "none"]
NaN == [kind |-> "nan"]
Value(q) == [kind |-> "value", v |-> q]
Raised(name) == [kind |-> "error", name |-> name]

\* numerator = ((y_true - y_pred) ** 2).sum()
SSres(y_true, y_pred) ==
    RSum([i \in 1..Len(y_true) |-> RSq(RSub(y_true[i], y_pred[i]))])

\* sum of (y - m) ** 2
SumSqAbout(y, m) == RSum([i \in 1..Len(y) |-> RSq(RSub(y[i], m))])

\* denominator = ((y_true - np.average(y_true)) ** 2).sum()
SStot(y_true) == SumSqAbout(y_true, Average(y_true))

\* the score from the two sums: 1 - numerator / denominator where the
\* denominator is nonzero; where it is zero, 0.0 if the numerator is nonzero
\* and 1.0 otherwise
ScoreOf(numerator, denominator) ==
    IF denominator # RZero
    THEN Value(RSub(ROne, RDiv(numerator, denominator)))
    ELSE IF numerator # RZero THEN Value(RZero) ELSE Value(ROne)

\* A wrong scorer: the denominator is taken around the mean of the predictions.
r2_score_mean_of_pred(y_true, y_pred) ==
    IF Len(y_true) # Len(y_pred) THEN Raised("ValueError")
    ELSE ScoreOf(SSres(y_true, y_pred), SumSqAbout(y_true, Average(y_pred)))

\* A wrong scorer: the quotient is added to 1.
r2_score_sign(y_true, y_pred) ==
    IF Len(y_true) # Len(y_pred) THEN Raised("ValueError")
    ELSE IF SStot(y_true) = RZero THEN ScoreOf(SSres(y_true, y_pred), RZero)
    ELSE Value(RAdd(ROne, RDiv(SSres(y_true, y_pred), SStot(y_true))))

\* check_consistent_length, then the score from numerator and denominator
r2_score(y_true, y_pred) ==
    IF Len(y_true) # Len(y_pred) THEN Raised("ValueError")
    ELSE ScoreOf(SSres(y_true, y_pred), SStot(y_true))

\* What a call of r2_score can return.  On fewer than two samples the
\* releases of the library differ: the later ones warn that the score is not
\* well-defined and return nan, the earlier ones compute as above.
R2Outcomes(y_true, y_pred) ==
    IF Len(y_true) = Len(y_pred) /\ Len(y_pred) < 2
    THEN {r2_score(y_true, y_pred), NaN}
    ELSE {r2_score(y_true, y_pred)}


(***************************************************************************)
(* The random generator behind random_state=.  numpy's Mersenne Twister is *)
(* abstracted to a small linear congruential generator: what the pipeline  *)
(* relies on is that a generator is a state, that seeding fixes the state  *)
(* and that every draw advances it.                                        *)
(***************************************************************************)
\* np.random.RandomState(seed): a generator of its own, seeded
RandomState(seed) == [s |-> (5 * seed + 1) % 64, shared |-> FALSE]

\* A wrong check_random_state: the seed is ignored and the global generator
\* is used, as for random_state=None.
check_random_state_unseeded(seed, global) == [s |-> global, shared |-> TRUE]

\* sklearn.utils.check_random_state(seed): None (here -1) is numpy's global
\* generator, an int seeds a new generator
check_random_state(seed, global) ==
    IF seed = -1 THEN [s |-> global, shared |-> TRUE] ELSE RandomState(seed)

\* one step of the generator
Advance(rng) == [rng EXCEPT !.s = (13 * rng.s + 7) % 64]

\* the integer in 0..max read off a generator state
Interval(rng, max) == (rng.s \div 4) % (max + 1)

\* rng.shuffle(x): for i in reversed(range(1, n)): j = interval(i); swap x[i], x[j]
\* (positions are 0-based as in numpy, the sequence is stored 1-based)
RECURSIVE ShuffleFrom(_, _, _)
ShuffleFrom(i, x, rng) ==
    IF i < 1 THEN [x |-> x, rng |-> rng]
    ELSE LET g == Advance(rng)
             j == Interval(g, i)
         IN  ShuffleFrom(i - 1, [x EXCEPT ![i + 1] = x[j + 1], ![j + 1] = x[i + 1]], g)

shuffle(x, rng) == ShuffleFrom(Len(x) - 1, x, rng)

\* rng.permutation(n): shuffle(arange(n)); samples are numbered 1..n here
permutation(n, rng) == shuffle([i \in 1..n |-> i], rng)

\* the global generator after a call that used `rng`
GlobalAfter(rng, global) == IF rng.shared THEN rng.s ELSE global

(***************************************************************************)
(* train_test_split(X, y, random_state=seed), test_size left at its        *)
(* default of 0.25.                                                        *)
(***************************************************************************)
\* x[idx], fancy indexing
Take(x, idx) == [i \in 1..Len(idx) |-> x[idx[i]]]

\* s[from:to] with 0-based, end-exclusive bounds
Slice(s, from, to) == [i \in 1..(to - from) |-> s[from + i]]

\* n_test = ceil(0.25 * n_samples)
\* A wrong default: a fifth of the samples held out.
NTestFifth(n) == (n + 4) \div 5

NTest(n) == (n + 3) \div 4

\* n_train = n_samples - n_test
NTrain(n) == n - NTest(n)

\* A wrong split: the training slice starts one position early.
train_test_split_overlap(X, y, seed, global) ==
    LET n == Len(X)
        rng == check_random_state(seed, global)
        p == permutation(n, rng)
        test == Slice(p.x, 0, NTest(n))
        train == Slice(p.x, NTest(n) - 1, NTest(n) + NTrain(n) - 1)
    IN  [error |-> "", train |-> train, test |-> test,
         X_train |-> Take(X, train), X_test |-> Take(X, test),
         y_train |-> Take(y, train), y_test |-> Take(y, test),
         global |-> GlobalAfter(p.rng, global)]

\* ShuffleSplit: permutation = rng.permutation(n); ind_test = permutation[:n_test];
\* ind_train = permutation[n_test:n_test + n_train]; the four arrays are X and y
\* indexed by ind_train and ind_test.  An empty training set is a ValueError.
\* A wrong split: the features are shuffled, the targets are cut in table order.
train_test_split_unpaired(X, y, seed, global) ==
    LET n == Len(X)
        rng == check_random_state(seed, global)
        p == permutation(n, rng)
        test == Slice(p.x, 0, NTest(n))
        train == Slice(p.x, NTest(n), NTest(n) + NTrain(n))
    IN  [error |-> "", train |-> train, test |-> test,
         X_train |-> Take(X, train), X_test |-> Take(X, test),
         y_train |-> Slice(y, NTest(n), n), y_test |-> Slice(y, 0, NTest(n)),
         global |-> GlobalAfter(p.rng, global)]

train_test_split(X, y, seed, global) ==
    LET n == Len(X)
        rng == check_random_state(seed, global)
        p == permutation(n, rng)
        test == Slice(p.x, 0, NTest(n))
        train == Slice(p.x, NTest(n), NTest(n) + NTrain(n))
    IN  IF n = 0 \/ NTrain(n) = 0
        THEN [error |-> "ValueError", train |-> <<>>, test |-> <<>>,
              X_train |-> <<>>, X_test |-> <<>>, y_train |-> <<>>, y_test |-> <<>>,
              global |-> global]
        ELSE [error |-> "", train |-> train, test |-> test,
              X_train |-> Take(X, train), X_test |-> Take(X, test),
              y_train |-> Take(y, train), y_test |-> Take(y, test),
              global |-> GlobalAfter(p.rng, global)]

(***************************************************************************)
(* KFold(n_splits=k, shuffle=True, random_state=seed).split(X)             *)
(***************************************************************************)
\* the ascending sequence of the members of a set of sample numbers
RECURSIVE Ascending(_)
Ascending(S) ==
    IF S = {} THEN <<>>
    ELSE LET m == CHOOSE a \in S : \A b \in S : a <= b
         IN  <<m>> \o Ascending(S \ {m})

Range(s) == {s[i] : i \in 1..Len(s)}

\* A wrong fold size: the remainder n % k is dropped.
FoldSizeNoRemainder(n, k, fold) == n \div k

\* fold_sizes = full(k, n // k); fold_sizes[:n % k] += 1   (fold is 1-based)
FoldSize(n, k, fold) == (n \div k) + (IF fold <= n % k THEN 1 ELSE 0)

\* start of a fold in the shuffled index array (0-based)
RECURSIVE FoldStart(_, _, _)
FoldStart(n, k, fold) ==
    IF fold = 1 THEN 0 ELSE FoldStart(n, k, fold - 1) + FoldSize(n, k, fold - 1)

\* One (train, test) pair: the test indices of a fold are a slice of the
\* shuffled indices, turned into a mask, so test and train come out in
\* ascending order.
FoldPair(n, test) ==
    [train |-> Ascending((1..n) \ test), test |-> Ascending(test)]

\* the k pairs, in fold order, cut from the shuffled indices
FoldsOf(n, k, indices) ==
    [f \in 1..k |->
        FoldPair(n, Range(Slice(indices, FoldStart(n, k, f),
                                FoldStart(n, k, f) + FoldSize(n, k, f))))]

KFoldShuffled(n, k, sh, global) ==
    [folds |-> FoldsOf(n, k, sh.x), global |-> GlobalAfter(sh.rng, global)]

\* indices = arange(n); check_random_state(seed).shuffle(indices); then the folds
KFoldSplit(n, k, seed, global) ==
    KFoldShuffled(n, k, shuffle([i \in 1..n |-> i], check_random_state(seed, global)),
                  global)

(***************************************************************************)
(* Linear estimators on a single feature column.                           *)
(***************************************************************************)
Kinds == {"LinearRegression", "ElasticNet", "Lasso", "Ridge"}

\* LinearRegression(), ElasticNet(), Lasso(), Ridge(): a new, unfitted object
NewEstimator(kind) ==
    [kind |-> kind, fitted |-> FALSE, coef |-> RZero, intercept |-> RZero]

\* sum of (x - xm)(y - ym)
CovAbout(X, y, xm, ym) ==
    RSum([i \in 1..Len(X) |-> RMul(RSub(X[i], xm), RSub(y[i], ym))])

\* sum of (x - mean x)(y - mean y)
Cov(X, y) == CovAbout(X, y, Average(X), Average(y))

RAbs(a) == <<Abs(a[1]), a[2]>>

\* the soft-thresholding step of coordinate descent: sign(z) * max(|z| - t, 0)
SoftThreshold(z, t) ==
    IF RLe(RAbs(z), t) THEN RZero
    ELSE IF RLt(RZero, z) THEN RSub(z, t) ELSE RAdd(z, t)

\* The slope each estimator fits to centred data, with the default
\* hyperparameters (alpha = 1.0, l1_ratio = 0.5):
\*   LinearRegression  Sxy / Sxx            (0 for a constant column: lstsq)
\*   Ridge             Sxy / (Sxx + alpha)
\*   Lasso             soft(Sxy, n * alpha) / Sxx
\*   ElasticNet        soft(Sxy, n * alpha * l1_ratio)
\*                         / (Sxx + n * alpha * (1 - l1_ratio))
SlopeFrom(kind, n, Sxx, Sxy, half) ==
    CASE kind = "LinearRegression" ->
             IF Sxx = RZero THEN RZero ELSE RDiv(Sxy, Sxx)
      [] kind = "Ridge" -> RDiv(Sxy, RAdd(Sxx, ROne))
      [] kind = "Lasso" ->
             IF Sxx = RZero THEN RZero ELSE RDiv(SoftThreshold(Sxy, n), Sxx)
      [] kind = "ElasticNet" ->
             RDiv(SoftThreshold(Sxy, RMul(n, half)), RAdd(Sxx, RMul(n, half)))

Slope(kind, X, y) ==
    SlopeFrom(kind, RInt(Len(X)), Cov(X, X), Cov(X, y), Norm(1, 2))

\* coef_ = m, intercept_ = mean(y) - m * mean(x)
Fitted(est, m, X, y) ==
    [est EXCEPT !.fitted = TRUE,
                !.coef = m,
                !.intercept = RSub(Average(y), RMul(m, Average(X)))]

\* estimator.fit(X, y): sets coef_ and intercept_ = mean(y) - coef_ * mean(x),
\* overwriting an earlier fit
fit(est, X, y) == Fitted(est, Slope(est.kind, X, y), X, y)

\* A wrong predict: no check that fit has run.
predict_unchecked(est, X) ==
    [kind |-> "array",
     v |-> [i \in 1..Len(X) |-> RAdd(RMul(est.coef, X[i]), est.intercept)]]

\* estimator.predict(X): check_is_fitted, then X * coef_ + intercept_
predict(est, X) ==
    IF ~est.fitted THEN Raised("NotFittedError")
    ELSE [kind |-> "array",
          v |-> [i \in 1..Len(X) |-> RAdd(RMul(est.coef, X[i]), est.intercept)]]

\* A wrong clone: the estimator object itself is handed on.
clone_same_object(h, id) == <<h, id>>

\* sklearn.base.clone(estimator): a new unfitted object with the same
\* parameters, appended to the heap; the result is <<heap, object id>>
clone(h, id) == <<Append(h, NewEstimator(h[id].kind)), Len(h) + 1>>


(***************************************************************************)
(* cross_val_score(estimator, X, y, cv=kfold, scoring='r2')                *)
(***************************************************************************)
\* the calls of a cross-validation that raise: <<estimator object, fold, call>>
Fails(id, f, op) == <<id, f, op>> \in env.faults

\* what cross_val_score does with an exception, by the error_score default
\* and the handling of the release:
\*   "raise"              every exception leaves cross_val_score
\*   "nan_fit"            a failed fit scores nan (error_score=np.nan); an
\*                        exception of the scorer leaves cross_val_score
\*   "nan"                a failed fit and a failed scorer both score nan
\*   "nan_or_all_failed"  as "nan", and ValueError when all k fits failed
Releases == {"raise", "nan_fit", "nan", "nan_or_all_failed"}

\* One round per fold, in fold order: clone the estimator, fit the clone on
\* the training part, score its predictions for the test part with r2_score.
\* A fit or a scorer (predict, then r2_score) that raises is handled as the
\* release handles it.
RECURSIVE CVRounds(_, _, _, _, _, _, _)
CVRounds(f, h, id, X, y, folds, acc) ==
    IF f > Len(folds)
    THEN [acc EXCEPT !.heap = h,
                     !.error = IF /\ env.release = "nan_or_all_failed"
                                  /\ \A g \in 1..Len(folds) : Fails(id, g, "fit")
                               THEN "ValueError" ELSE ""]
    ELSE LET c == clone(h, id)
             h1 == c[1]
             obj == c[2]
             fresh == ~h1[obj].fitted
             fit_fails == Fails(id, f, "fit")
             scorer_fails == Fails(id, f, "predict") \/ Fails(id, f, "score")
             h2 == IF fit_fails THEN h1
                   ELSE [h1 EXCEPT ![obj] = fit(h1[obj], Take(X, folds[f].train),
                                                Take(y, folds[f].train))]
             p == predict(h2[obj], Take(X, folds[f].test))
             score == IF fit_fails \/ scorer_fails THEN NaN
                      ELSE IF p.kind = "array"
                      THEN r2_score(Take(y, folds[f].test), p.v)
                      ELSE p
             leaves == IF fit_fails THEN env.release = "raise"
                       ELSE scorer_fails /\ env.release \in {"raise", "nan_fit"}
         IN  IF leaves THEN [acc EXCEPT !.heap = h2, !.error = "ValueError"]
             ELSE CVRounds(f + 1, h2, id, X, y, folds,
                           [acc EXCEPT !.scores = Append(@, score),
                                       !.objects = Append(@, obj),
                                       !.fresh = Append(@, fresh)])

cross_val_score(h, id, X, y, folds) ==
    CVRounds(1, h, id, X, y, folds,
             [heap |-> h, scores |-> <<>>, objects |-> <<>>, fresh |-> <<>>,
              error |-> ""])

\* scores.mean(): nan as soon as one score is nan, else the mean of the
\* scores, kept as the scores it is taken over
Mean(scores) ==
    IF \E i \in 1..Len(scores) : scores[i].kind # "value" THEN NaN
    ELSE [kind |-> "mean", of |-> [i \in 1..Len(scores) |-> scores[i].v]]

(***************************************************************************)
(* The notebook, its code cells run top to bottom.                         *)
(***************************************************************************)
NoData == [X |-> <<>>, y |-> <<>>]
NoSplit == [train |-> <<>>, test |-> <<>>]
Nothing == [kind |-> "nothing"]
NoCall == [op |-> "none", obj |-> 0, result |-> Nothing]
NoTasks == <<>>
NoFaults == [release |-> "nan", faults |-> {}]
Unbound == [defined |-> FALSE, captured |-> 0, calls |-> <<>>]
NoShape == [data |-> <<0, 0>>, train |-> <<0, 0>>, test |-> <<0, 0>>]

\* literal of random_state=11 in both splits and in KFold
NotebookSeed == 11

Seeds == 0..MaxSeed \cup {NotebookSeed}

\* the kernel before any cell has run
EmptyKernel ==
    /\ random_state = NotebookSeed
    /\ n_splits = 2
    /\ np_random = 0
    /\ df_nyc = NoData
    /\ california = NoData
    /\ X_train = <<>> /\ X_test = <<>> /\ y_train = <<>> /\ y_test = <<>>
    /\ split_idx = [nyc |-> NoSplit, cal |-> NoSplit]
    /\ heap = <<>>
    /\ linear_regression = 0
    /\ estimators = <<>>
    /\ cv_results = <<>>
    /\ kfolds_built = 0
    /\ printed = Nothing
    /\ raised = ""
    /\ env = NoFaults
    /\ predict_fn = Unbound
    /\ last_call = NoCall
    /\ tasks = NoTasks

\* the tables a load cell can produce: n samples, one feature column
\* holding 1..n, every target 0 or 1
Tables(n) ==
    {[X |-> [i \in 1..n |-> RInt(i)], y |-> [i \in 1..n |-> RInt(t[i])]] :
        t \in [1..n -> 0..1]}

\* the NYC tables: the smallest size, targets that never fall from one year
\* to the next
WarmingTables ==
    {t \in Tables(MinSamples) : \A i \in 2..MinSamples : RLe(t.y[i - 1], t.y[i])}

Init ==
    /\ pc = "load_nyc"
    /\ random_state \in Seeds
    /\ n_splits \in 2..MaxFolds
    /\ np_random = 0
    /\ df_nyc = NoData
    /\ california = NoData
    /\ X_train = <<>> /\ X_test = <<>> /\ y_train = <<>> /\ y_test = <<>>
    /\ split_idx = [nyc |-> NoSplit, cal |-> NoSplit]
    /\ heap = <<>>
    /\ linear_regression = 0
    /\ estimators = <<>>
    /\ expected = <<>> /\ predicted = <<>> /\ r2 = NoScore
    /\ cv_results = <<>>
    /\ kfolds_built = 0
    /\ printed = Nothing
    /\ raised = ""
    /\ env = NoFaults
    /\ predict_fn = Unbound
    /\ shape = NoShape
    /\ last_call = NoCall
    /\ tasks = NoTasks

\* df_nyc = pd.read_csv(...)
LoadNyc ==
    /\ pc = "load_nyc"
    /\ df_nyc' \in WarmingTables
    /\ pc' = "split_nyc"
    /\ UNCHANGED <<random_state, n_splits, california, np_random, split_vars,
                   est_vars, score_vars, sweep_vars, out_vars>>
    /\ UNCHANGED ghost_vars
    /\ UNCHANGED aux_vars

\* the shapes of a split of a table of one feature column
ShapesOf(r) ==
    [data |-> <<Len(r.X_train) + Len(r.X_test), 1>>,
     train |-> <<Len(r.X_train), 1>>, test |-> <<Len(r.X_test), 1>>]

\* X_train, X_test, y_train, y_test = train_test_split(X, y, random_state=11)
Split(cell, table, next) ==
    /\ pc = cell
    /\ \E r \in {train_test_split(table.X, table.y, random_state, np_random)} :
           IF r.error # ""
           THEN /\ raised' = r.error
                /\ pc' = "stopped"
                /\ UNCHANGED <<np_random, split_vars, shape>>
           ELSE /\ X_train' = r.X_train /\ X_test' = r.X_test
                /\ y_train' = r.y_train /\ y_test' = r.y_test
                /\ shape' = ShapesOf(r)
                /\ split_idx' = [split_idx EXCEPT
                                   ![IF cell = "split_nyc" THEN "nyc" ELSE "cal"] =
                                       [train |-> r.train, test |-> r.test]]
                /\ np_random' = r.global
                /\ pc' = next
                /\ UNCHANGED raised
    /\ UNCHANGED <<data_vars, est_vars, score_vars, sweep_vars, printed>>
    /\ UNCHANGED ghost_vars
    /\ UNCHANGED <<env, predict_fn>>

SplitNyc == Split("split_nyc", df_nyc, "confirm_nyc")

\* ndarray.size: the number of elements
size(sh) == sh[1] * sh[2]

RECURSIVE IsPow2(_)
IsPow2(d) == d = 1 \/ (d % 2 = 0 /\ IsPow2(d \div 2))

\* a / b * 100 in float64: exact when a / b is a dyadic fraction, else the
\* double next to the quotient times 100
Percent(a, b) ==
    LET q == Norm(a, b)
    IN  IF IsPow2(q[2]) THEN [kind |-> "exact", v |-> RMul(q, RInt(100))]
        ELSE [kind |-> "rounded", near |-> RMul(q, RInt(100))]

\* the two lines of a confirmation cell
ConfirmLines(sh) ==
    [kind |-> "confirm",
     train |-> [items |-> size(sh.train),
                percent |-> Percent(size(sh.train), size(sh.train) + size(sh.test))],
     test |-> [items |-> size(sh.test),
               percent |-> Percent(size(sh.test), size(sh.train) + size(sh.test))]]

\* print(X_train.size, 'items --', X_train.size/(X_train.size + X_test.size) * 100)
\* print(X_test.size, 'items --', X_test.size/(X_train.size + X_test.size) * 100)
Confirm(cell, next) ==
    /\ pc = cell
    /\ IF size(shape.train) + size(shape.test) = 0
       THEN raised' = "ZeroDivisionError" /\ pc' = "stopped" /\ UNCHANGED printed
       ELSE printed' = ConfirmLines(shape) /\ pc' = next /\ UNCHANGED raised
    /\ UNCHANGED <<data_vars, np_random, split_vars, est_vars, score_vars,
                   sweep_vars, ghost_vars, aux_vars>>

ConfirmNyc == Confirm("confirm_nyc", "fit_nyc")

\* linear_regression = LinearRegression(); linear_regression.fit(X=X_train, y=y_train)
Fit(cell, next) ==
    /\ pc = cell
    /\ heap' = Append(heap, fit(NewEstimator("LinearRegression"), X_train, y_train))
    /\ linear_regression' = Len(heap) + 1
    /\ last_call' = [op |-> "fit", obj |-> Len(heap) + 1, result |-> Nothing]
    /\ pc' = next
    /\ UNCHANGED tasks
    /\ UNCHANGED <<data_vars, np_random, split_vars, estimators, score_vars,
                   sweep_vars, out_vars>>
    /\ UNCHANGED aux_vars

FitNyc == Fit("fit_nyc", "coef_nyc")

\* est.coef_, est.intercept_: attributes that exist once fit has run
coef_intercept(est) ==
    IF ~est.fitted THEN Raised("AttributeError")
    ELSE [kind |-> "params", coef |-> est.coef, intercept |-> est.intercept]

\* print(linear_regression.coef_); print(linear_regression.intercept_)
Coef(cell, next) ==
    /\ pc = cell
    /\ LET r == coef_intercept(heap[linear_regression])
       IN  /\ last_call' = [op |-> "coef", obj |-> linear_regression, result |-> r]
           /\ IF r.kind = "error"
              THEN raised' = r.name /\ pc' = "stopped" /\ UNCHANGED printed
              ELSE printed' = r /\ pc' = next /\ UNCHANGED raised
    /\ UNCHANGED tasks
    /\ UNCHANGED <<data_vars, np_random, split_vars, est_vars, score_vars,
                   sweep_vars>>
    /\ UNCHANGED aux_vars

CoefNyc == Coef("coef_nyc", "predict_nyc")

\* expected = y_test; predicted = linear_regression.predict(X_test)
Predict(cell, next) ==
    /\ pc = cell
    /\ expected' = y_test
    /\ LET r == predict(heap[linear_regression], X_test)
       IN  /\ last_call' = [op |-> "predict", obj |-> linear_regression, result |-> r]
           /\ IF r.kind = "error"
              THEN raised' = r.name /\ pc' = "stopped" /\ UNCHANGED predicted
              ELSE predicted' = r.v /\ pc' = next /\ UNCHANGED raised
    /\ UNCHANGED tasks
    /\ UNCHANGED <<data_vars, np_random, split_vars, est_vars, r2, sweep_vars,
                   printed>>
    /\ UNCHANGED aux_vars

PredictNyc == Predict("predict_nyc", "lambda")

\* A wrong lookup: the object linear_regression named when the lambda was made.
GlobalAtDefinition(fn, current) == fn.captured

\* the lookup of the global name linear_regression in the body of the
\* lambda: the object the name is bound to when the body runs
GlobalAtCall(fn, current) == current

\* predict(x): linear_regression.coef_ * x + linear_regression.intercept_,
\* element by element of x
lambda_predict(fn, h, current, xs) ==
    LET id == GlobalAtCall(fn, current)
    IN  IF ~fn.defined \/ id = 0 THEN Raised("NameError")
        ELSE IF ~h[id].fitted THEN Raised("AttributeError")
        ELSE [kind |-> "array",
              v |-> [i \in 1..Len(xs) |->
                        RAdd(RMul(h[id].coef, xs[i]), h[id].intercept)]]

\* one call of the lambda, as it is kept in predict_fn.calls: the argument,
\* the object linear_regression is bound to during the call, the result
CallOf(fn, h, current, xs, rerun) ==
    [x |-> xs, bound |-> current, rerun |-> rerun,
     result |-> lambda_predict(fn, h, current, xs)]

\* the years of the two predictions
Year1890 == 1890
Year2021 == 2021

\* np.array([min(df_nyc['Date'].values), max(df_nyc['Date'].values)])
Ends(dates) ==
    <<CHOOSE a \in Range(dates) : \A b \in Range(dates) : RLe(a, b),
      CHOOSE a \in Range(dates) : \A b \in Range(dates) : RLe(b, a)>>

\* the lambda once bound to the name predict
Defined(current) == [defined |-> TRUE, captured |-> current, calls |-> <<>>]

\* predict = (lambda x: linear_regression.coef_ * x + linear_regression.intercept_)
DefineLambda ==
    /\ pc = "lambda"
    /\ predict_fn' = Defined(linear_regression)
    /\ pc' = "call_lambda"
    /\ UNCHANGED <<data_vars, np_random, split_vars, est_vars, score_vars,
                   sweep_vars, out_vars, ghost_vars, env, shape>>

\* the calls of a cell, in order; the cell stops at the first that raises
CallsOf(fn, h, current, args, rerun) ==
    [i \in 1..Len(args) |-> CallOf(fn, h, current, args[i], rerun)]

\* a cell that calls predict on each of args and shows the results
CallCell(cell, next, args, rerun) ==
    /\ pc = cell
    /\ \E cs \in {CallsOf(predict_fn, heap, linear_regression, args, rerun)} :
          /\ predict_fn' = [predict_fn EXCEPT !.calls = @ \o cs]
          /\ IF \E i \in 1..Len(cs) : cs[i].result.kind = "error"
             THEN /\ raised' = (CHOOSE c \in Range(cs) : c.result.kind = "error").result.name
                  /\ pc' = "stopped"
                  /\ UNCHANGED printed
             ELSE /\ printed' = [kind |-> "predictions",
                                 of |-> [i \in 1..Len(cs) |-> cs[i].result.v]]
                  /\ pc' = next
                  /\ UNCHANGED raised
    /\ UNCHANGED <<data_vars, np_random, split_vars, est_vars, score_vars,
                   sweep_vars, ghost_vars, env, shape>>

\* print('The prediction for 1890 is', predict(1890))
\* print('The prediction for 2021 is', predict(2021))
CallLambda ==
    CallCell("call_lambda", "plot", <<<<RInt(Year1890)>>, <<RInt(Year2021)>>>>, FALSE)

\* x = np.array([min(...), max(...)]); y = predict(x); line = plt.plot(x, y)
PlotLine == CallCell("plot", "load_cal", <<Ends(df_nyc.X)>>, FALSE)

\* california = fetch_california_housing(); the folds of the sweep hold two
\* or more samples each
LoadCal ==
    /\ pc = "load_cal"
    /\ \E n \in MinSamples..MaxSamples :
          /\ n >= 2 * n_splits
          /\ california' \in Tables(n)
    /\ pc' = "split_cal"
    /\ UNCHANGED <<random_state, n_splits, df_nyc, np_random, split_vars,
                   est_vars, score_vars, sweep_vars, out_vars>>
    /\ UNCHANGED ghost_vars
    /\ UNCHANGED aux_vars

SplitCal == Split("split_cal", california, "confirm_cal")

ConfirmCal == Confirm("confirm_cal", "fit_cal")

FitCal == Fit("fit_cal", "coef_cal")

CoefCal == Coef("coef_cal", "predict_cal")

PredictCal == Predict("predict_cal", "r2")

\* metrics.r2_score(expected, predicted)
R2Cell ==
    /\ pc = "r2"
    /\ r2' \in R2Outcomes(expected, predicted)
    /\ printed' = r2'
    /\ pc' = "estimators"
    /\ UNCHANGED <<data_vars, np_random, split_vars, est_vars, expected, predicted,
                   sweep_vars, raised>>
    /\ UNCHANGED ghost_vars
    /\ UNCHANGED aux_vars

\* estimators = {'LinearRegression': linear_regression, 'ElasticNet': ElasticNet(),
\*               'Lasso': Lasso(), 'Ridge': Ridge()}
EstimatorsCell ==
    /\ pc = "estimators"
    /\ heap' = heap \o <<NewEstimator("ElasticNet"), NewEstimator("Lasso"),
                         NewEstimator("Ridge")>>
    /\ estimators' = <<<<"LinearRegression", linear_regression>>,
                       <<"ElasticNet", Len(heap) + 1>>,
                       <<"Lasso", Len(heap) + 2>>,
                       <<"Ridge", Len(heap) + 3>>>>
    /\ pc' = "sweep"
    /\ UNCHANGED <<data_vars, np_random, split_vars, linear_regression, score_vars,
                   sweep_vars, out_vars>>
    /\ UNCHANGED ghost_vars
    /\ UNCHANGED aux_vars

\* One iteration of
\*   for estimator_name, estimator_object in estimators.items():
\*       kfold = KFold(n_splits=10, random_state=11, shuffle=True)
\*       scores = cross_val_score(estimator=estimator_object, X=california.data,
\*                                y=california.target, cv=kfold, scoring='r2')
\*       print(... scores.mean() ...)
\* an exception that leaves cross_val_score leaves the loop and the cell
SweepStep ==
    /\ pc = "sweep"
    /\ \E i \in {Len(cv_results) + 1} :
       \E kf \in {KFoldSplit(Len(california.X), n_splits, random_state, np_random)} :
       \E cv \in {cross_val_score(heap, estimators[i][2], california.X,
                                  california.y, kf.folds)} :
           /\ heap' = cv.heap
           /\ np_random' = kf.global
           /\ kfolds_built' = kfolds_built + 1
           /\ IF cv.error # ""
              THEN /\ raised' = cv.error
                   /\ pc' = "stopped"
                   /\ UNCHANGED <<cv_results, printed>>
              ELSE /\ cv_results' = Append(cv_results,
                                           [name |-> estimators[i][1],
                                            folds |-> kf.folds,
                                            scores |-> cv.scores,
                                            objects |-> cv.objects,
                                            fresh |-> cv.fresh])
                   /\ printed' = [kind |-> "line", name |-> estimators[i][1],
                                  mean |-> Mean(cv.scores)]
                   /\ pc' = IF i = Len(estimators) THEN "done" ELSE "sweep"
                   /\ UNCHANGED raised
    /\ UNCHANGED <<data_vars, split_vars, linear_regression, estimators, score_vars>>
    /\ UNCHANGED ghost_vars
    /\ UNCHANGED aux_vars

Next ==
    \/ LoadNyc \/ SplitNyc \/ ConfirmNyc \/ FitNyc \/ CoefNyc \/ PredictNyc
    \/ DefineLambda \/ CallLambda \/ PlotLine
    \/ LoadCal \/ SplitCal \/ ConfirmCal \/ FitCal \/ CoefCal \/ PredictCal
    \/ R2Cell \/ EstimatorsCell \/ SweepStep

Spec == Init /\ [][Next]_vars


(***************************************************************************)
(* Properties of the notebook run (checked under Spec).                    *)
(***************************************************************************)
SplitRan(c) == split_idx[c] # NoSplit

TableOf(c) == IF c = "nyc" THEN df_nyc ELSE california

\* C1: the training and the testing subset of a split are disjoint and
\* together hold every sample of the table exactly once.
C1_SplitPartition ==
    \A c \in {"nyc", "cal"} :
        SplitRan(c) =>
            LET tr == split_idx[c].train
                te == split_idx[c].test
                n == Len(TableOf(c).X)
            IN  /\ Range(tr) \cap Range(te) = {}
                /\ Range(tr) \cup Range(te) = 1..n
                /\ Len(tr) + Len(te) = n
                /\ Len(tr) >= 1 /\ Len(te) >= 1

C1_Witness ==
    /\ pc = "fit_cal"
    /\ SplitRan("nyc") /\ SplitRan("cal")
    /\ Len(X_train) = NTrain(Len(california.X))
    /\ Len(X_test) = NTest(Len(california.X))

SweepRounds == 1..Len(cv_results)

\* the sample numbers a sweep iteration tested in fold f / trained on in round f
TestOf(r, f) == Range(r.folds[f].test)
TrainOf(r, f) == Range(r.folds[f].train)

\* C2: every sample is in exactly one fold, the folds together are the full
\* dataset, and over the k rounds every sample is test data exactly once and
\* training data in the other k - 1 rounds.
C2_FoldPartition ==
    \A i \in SweepRounds :
        LET r == cv_results[i]
            n == Len(california.X)
            k == Len(r.folds)
        IN  /\ k = n_splits
            /\ UNION {TestOf(r, f) : f \in 1..k} = 1..n
            /\ \A s \in 1..n :
                  /\ Cardinality({f \in 1..k : s \in TestOf(r, f)}) = 1
                  /\ Cardinality({f \in 1..k : s \in TrainOf(r, f)}) = k - 1
                  /\ \A f \in 1..k : ~(s \in TestOf(r, f) /\ s \in TrainOf(r, f))
            /\ \A f \in 1..k :
                  /\ Len(r.folds[f].test) = Cardinality(TestOf(r, f))
                  /\ Len(r.folds[f].train) = Cardinality(TrainOf(r, f))

C2_Witness ==
    /\ pc = "done"
    /\ Len(cv_results) = 4
    /\ Len(california.X) % n_splits # 0

\* C3 as stated: the fold partition is computed once in a sweep and reused
\* for every estimator.
C3_PartitionComputedOnce == pc = "done" => kfolds_built = 1

\* C3 amended: the sweep computes the fold partition anew for every
\* estimator, from a new KFold with the same seed, and every estimator is
\* trained and scored on the same k train/test pairs.
C3_SameFoldsEveryEstimator ==
    /\ kfolds_built = Len(cv_results)
    /\ \A i, j \in SweepRounds : cv_results[i].folds = cv_results[j].folds

C3_Witness ==
    /\ pc = "done"
    /\ kfolds_built = 4
    /\ {cv_results[i].name : i \in SweepRounds} = Kinds

\* C4: with the seed fixed, two runs of the split on tables of one size put
\* the same samples into train and test, and every KFold built in the sweep
\* yields the same fold assignment.
C4_Deterministic ==
    /\ (SplitRan("nyc") /\ SplitRan("cal") /\ Len(df_nyc.X) = Len(california.X))
           => split_idx["nyc"] = split_idx["cal"]
    /\ \A i \in SweepRounds : cv_results[i].folds = cv_results[1].folds

C4_Witness ==
    /\ pc = "done"
    /\ df_nyc = california
    /\ split_idx["nyc"] = split_idx["cal"]
    /\ Len(cv_results) = 4

KindOf(name) == name

\* the training samples of round f, put together from the other folds
OtherFolds(r, f) ==
    Ascending(UNION {TestOf(r, g) : g \in (1..Len(r.folds)) \ {f}})

\* the R2 of a new estimator of the kind, trained on `train`, for `test`
FreshScore(kind, train, test) ==
    LET X == california.X
        y == california.y
        e == fit(NewEstimator(kind), Take(X, train), Take(y, train))
    IN  r2_score(Take(y, test), predict(e, Take(X, test)).v)

\* C5: a cross-validation run returns k scores in fold order; score f is
\* the R2 of an estimator object that was unfitted until this round, trained
\* on the folds other than f and scored on fold f.  The LinearRegression
\* entry, fitted before the sweep, is no exception.
C5_ScoresPerFold ==
    \A i \in SweepRounds :
        LET r == cv_results[i]
        IN  /\ Len(r.scores) = n_splits
            /\ \A f \in 1..n_splits :
                  /\ r.fresh[f]
                  /\ r.objects[f] # estimators[i][2]
                  /\ \A g \in 1..n_splits : g # f => r.objects[g] # r.objects[f]
                  /\ r.scores[f] = FreshScore(KindOf(r.name), OtherFolds(r, f),
                                              r.folds[f].test)

C5_Witness ==
    /\ Len(cv_results) >= 1
    /\ cv_results[1].name = "LinearRegression"
    /\ heap[estimators[1][2]].fitted
    /\ Len(cv_results[1].scores) = n_splits
    /\ \E f \in 1..n_splits :
          cv_results[1].scores[f].kind = "value"
              /\ cv_results[1].scores[f].v \notin {RZero, ROne}

AllScores ==
    (IF r2.kind = "value" THEN {r2.v} ELSE {})
    \cup UNION {{cv_results[i].scores[f].v : f \in 1..Len(cv_results[i].scores)} :
                  i \in SweepRounds}

IntSeqs(maxLen, maxVal) ==
    UNION {[1..n -> {RInt(v) : v \in 0..maxVal}] : n \in 1..maxLen}

ConstSeq(n, q) == [i \in 1..n |-> q]

InitR2 ==
    /\ pc = "r2_call"
    /\ expected \in IntSeqs(MaxLen, MaxScoreVal)
    /\ predicted \in IntSeqs(MaxLen, MaxScoreVal)
                     \cup {ConstSeq(Len(expected), Average(expected))}
    /\ r2 = NoScore
    /\ EmptyKernel
    /\ shape = NoShape

\* metrics.r2_score(expected, predicted)
ScoreCall ==
    /\ pc = "r2_call"
    /\ r2' \in R2Outcomes(expected, predicted)
    /\ pc' = "r2_done"
    /\ UNCHANGED <<expected, predicted>>
    /\ UNCHANGED <<data_vars, np_random, split_vars, est_vars, sweep_vars, out_vars>>
    /\ UNCHANGED ghost_vars
    /\ UNCHANGED aux_vars

NextR2 == ScoreCall

SpecR2 == InitR2 /\ [][NextR2]_vars

(***************************************************************************)
(* Properties of the scorer (checked under SpecR2).                        *)
(***************************************************************************)
AllEqual(s) == \A i, j \in 1..Len(s) : s[i] = s[j]

\* The two sums of squares, expanded the textbook way rather than the way
\* the library accumulates them.
SumSqRes(e, p) ==
    RSum([i \in 1..Len(e) |->
            RAdd(RSub(RSq(e[i]), RMul(RInt(2), RMul(e[i], p[i]))), RSq(p[i]))])

SumSqTot(e) ==
    RSub(RSum([i \in 1..Len(e) |-> RSq(e[i])]),
         RDiv(RSq(RSum(e)), RInt(Len(e))))

Scored == pc = "r2_done" /\ Len(expected) = Len(predicted)

\* two or more samples: the inputs on which every release computes the same
ScoredMany == Scored /\ Len(expected) >= 2

PredictedIsMean == predicted = ConstSeq(Len(expected), Average(expected))

C10_DegenerateReported ==
    (ScoredMany /\ AllEqual(expected)) => r2.kind \in {"error", "nan"}

(***************************************************************************)
(* The sweep with its (estimator, fold) evaluations run in any order and   *)
(* overlapping: the schedule that cross_val_score(n_jobs=...) or any other *)
(* parallel runner of the loop body is free to pick.                       *)
(***************************************************************************)
\* the NYC table of these runs
NycTable == CHOOSE t \in WarmingTables : t.y[1] # t.y[MinSamples]

\* the California tables of these runs: the smallest size, targets not constant
HousingTables ==
    {t \in Tables(MinSamples) : t.y[1] = RZero /\ t.y[MinSamples] = ROne}

Pairs == {<<i, f>> : i \in 1..4, f \in 1..2}

\* an evaluation: its phase, its (train, test) pair, the estimator object it
\* fits, that object while no name of the kernel refers to it, and its score
Pending ==
    [phase |-> "pending", fold |-> NoSplit, obj |-> 0, own |-> <<>>,
     score |-> NoScore]

\* the object an evaluation works on: one of the kernel, or its own
ObjectOf(h, t) == IF t.obj <= Len(h) THEN h[t.obj] ELSE t.own[1]

\* the kernel when the sweep cell starts: every cell above it has run
AtSweepCell ==
    /\ pc = "sweep"
    /\ random_state = NotebookSeed
    /\ n_splits = 2
    /\ df_nyc = NycTable
    /\ california \in HousingTables
    /\ \E a \in {train_test_split(df_nyc.X, df_nyc.y, random_state, 0)} :
       \E b \in {train_test_split(california.X, california.y, random_state,
                                  a.global)} :
          /\ np_random = b.global
          /\ X_train = b.X_train /\ X_test = b.X_test
          /\ y_train = b.y_train /\ y_test = b.y_test
          /\ split_idx = [nyc |-> [train |-> a.train, test |-> a.test],
                          cal |-> [train |-> b.train, test |-> b.test]]
          /\ shape = ShapesOf(b)
          /\ heap = <<fit(NewEstimator("LinearRegression"), a.X_train, a.y_train),
                      fit(NewEstimator("LinearRegression"), b.X_train, b.y_train),
                      NewEstimator("ElasticNet"), NewEstimator("Lasso"),
                      NewEstimator("Ridge")>>
    /\ linear_regression = 2
    /\ estimators = <<<<"LinearRegression", 2>>, <<"ElasticNet", 3>>,
                      <<"Lasso", 4>>, <<"Ridge", 5>>>>
    /\ expected = y_test
    /\ predicted = predict(heap[linear_regression], X_test).v
    /\ r2 \in R2Outcomes(expected, predicted)
    /\ cv_results = <<>>
    /\ kfolds_built = 0
    /\ printed = r2
    /\ raised = ""
    /\ predict_fn =
          [Defined(1) EXCEPT !.calls =
              CallsOf(Defined(1), heap, 1,
                      <<<<RInt(Year1890)>>, <<RInt(Year2021)>>, Ends(df_nyc.X)>>,
                      FALSE)]
    /\ last_call = [op |-> "predict", obj |-> linear_regression,
                    result |-> predict(heap[linear_regression], X_test)]

InitAnyOrder ==
    /\ AtSweepCell
    /\ env = NoFaults
    /\ tasks = [slot |-> [p \in Pairs |-> Pending],
                mean |-> [i \in 1..4 |-> Nothing]]

\* kfold = KFold(n_splits=10, random_state=11, shuffle=True) and the
\* kfold.split(X) of cross_val_score for estimator i: its (train, test) pairs
\* are handed to the evaluations of that estimator
Dispatch(i) ==
    /\ pc = "sweep"
    /\ \A f \in 1..n_splits : tasks.slot[<<i, f>>].phase = "pending"
    /\ \E kf \in {KFoldSplit(Len(california.X), n_splits, random_state, np_random)} :
          /\ np_random' = kf.global
          /\ tasks' = [tasks EXCEPT !.slot =
                          [p \in Pairs |->
                              IF p[1] = i
                              THEN [Pending EXCEPT !.phase = "ready",
                                                   !.fold = kf.folds[p[2]]]
                              ELSE @[p]]]
    /\ kfolds_built' = kfolds_built + 1
    /\ UNCHANGED <<pc, data_vars, split_vars, est_vars, score_vars, cv_results,
                   out_vars, last_call>>
    /\ UNCHANGED aux_vars

\* the first half of one evaluation of cross_val_score: clone the estimator
\* and fit the clone on the training part of the fold; a new object is the
\* evaluation's own, an object of the kernel is fitted where it is
FitPair(i, f) ==
    /\ pc = "sweep"
    /\ tasks.slot[<<i, f>>].phase = "ready"
    /\ \E c \in {clone(heap, estimators[i][2])} :
       \E est \in {fit(c[1][c[2]],
                       Take(california.X, tasks.slot[<<i, f>>].fold.train),
                       Take(california.y, tasks.slot[<<i, f>>].fold.train))} :
          /\ heap' = IF c[2] <= Len(heap) THEN [heap EXCEPT ![c[2]] = est]
                     ELSE heap
          /\ tasks' = [tasks EXCEPT
                          !.slot[<<i, f>>].phase = "fitted",
                          !.slot[<<i, f>>].obj = c[2],
                          !.slot[<<i, f>>].own =
                              IF c[2] <= Len(heap) THEN <<>> ELSE <<est>>]
    /\ UNCHANGED <<pc, data_vars, np_random, split_vars, linear_regression,
                   estimators, score_vars, sweep_vars, out_vars, last_call>>
    /\ UNCHANGED aux_vars

\* the second half: predict the test part of the fold with the fitted clone
\* and write the r2 score into the slot of the pair
ScorePair(i, f) ==
    /\ pc = "sweep"
    /\ tasks.slot[<<i, f>>].phase = "fitted"
    /\ LET t == tasks.slot[<<i, f>>]
           p == predict(ObjectOf(heap, t), Take(california.X, t.fold.test))
           score == IF p.kind = "array"
                    THEN r2_score(Take(california.y, t.fold.test), p.v)
                    ELSE p
       IN  tasks' = [tasks EXCEPT !.slot[<<i, f>>].phase = "scored",
                                  !.slot[<<i, f>>].score = score]
    /\ UNCHANGED <<pc, data_vars, np_random, split_vars, est_vars, score_vars,
                   sweep_vars, out_vars, last_call>>
    /\ UNCHANGED aux_vars

\* the scores of estimator i collected in fold order
Collected(t, i) == [f \in 1..n_splits |-> t.slot[<<i, f>>].score]

\* scores.mean() and the print of the line of estimator i, once its
\* evaluations have all finished
Collect(i) ==
    /\ pc = "sweep"
    /\ tasks.mean[i] = Nothing
    /\ \A f \in 1..n_splits : tasks.slot[<<i, f>>].phase = "scored"
    /\ tasks' = [tasks EXCEPT !.mean[i] = Mean(Collected(tasks, i))]
    /\ printed' = [kind |-> "line", name |-> estimators[i][1],
                   mean |-> Mean(Collected(tasks, i))]
    /\ pc' = IF \A j \in 1..4 : tasks'.mean[j] # Nothing THEN "done" ELSE "sweep"
    /\ UNCHANGED <<data_vars, np_random, split_vars, est_vars, score_vars,
                   sweep_vars, raised, last_call>>
    /\ UNCHANGED aux_vars

NextAnyOrder ==
    \/ \E i \in 1..4 : Dispatch(i)
    \/ \E p \in Pairs : FitPair(p[1], p[2])
    \/ \E p \in Pairs : ScorePair(p[1], p[2])
    \/ \E i \in 1..4 : Collect(i)

SpecAnyOrder == InitAnyOrder /\ [][NextAnyOrder]_vars

(***************************************************************************)
(* Properties of the sweep in any order (checked under SpecAnyOrder).      *)
(***************************************************************************)
\* what the loop of the notebook computes for estimator i when it runs alone
\* on the kernel the sweep started from
Sequential(i, folds) ==
    cross_val_score(heap, estimators[i][2], california.X, california.y, folds)

\* the fold pairs of a KFold of the notebook
SweepFolds ==
    KFoldSplit(Len(california.X), n_splits, random_state, np_random).folds

\* C6: whatever the order and the overlap of the (estimator, fold)
\* evaluations, the scores of an estimator collected in fold order are the
\* scores the sequential loop computes for it, fold by fold, and its mean is
\* the mean of the sequential loop.
C6_OrderIndependent ==
    \A folds \in {SweepFolds} :
    \A i \in {j \in 1..4 : tasks.mean[j] # Nothing} :
    \A seq \in {Sequential(i, folds).scores} :
        /\ \A f \in 1..n_splits :
               /\ tasks.slot[<<i, f>>].phase = "scored"
               /\ tasks.slot[<<i, f>>].score = seq[f]
        /\ Collected(tasks, i) = seq
        /\ tasks.mean[i] = Mean(seq)

\* the last estimator is finished while the first has its second fold scored
\* before its first, which is still between fit and predict, next to a fitted
\* clone of the second estimator
C6_Witness ==
    /\ tasks.mean[4] # Nothing
    /\ tasks.slot[<<1, 2>>].phase = "scored"
    /\ tasks.slot[<<1, 2>>].score.kind = "value"
    /\ tasks.slot[<<1, 1>>].phase = "fitted"
    /\ tasks.slot[<<2, 1>>].phase = "fitted"

(***************************************************************************)
(* The estimators under every order of calls: the notebook itself, and a   *)
(* client that constructs estimators and calls fit, predict and the        *)
(* coef_ / intercept_ attributes on them in any order.                     *)
(***************************************************************************)
InitClient ==
    /\ pc = "client"
    /\ random_state \in Seeds
    /\ n_splits = 2
    /\ np_random = 0
    /\ df_nyc \in WarmingTables
    /\ california = NoData
    /\ \E r \in {train_test_split(df_nyc.X, df_nyc.y, random_state, np_random)} :
          /\ X_train = r.X_train /\ X_test = r.X_test
          /\ y_train = r.y_train /\ y_test = r.y_test
          /\ split_idx = [nyc |-> [train |-> r.train, test |-> r.test],
                          cal |-> NoSplit]
          /\ shape = ShapesOf(r)
    /\ heap = <<>>
    /\ linear_regression = 0
    /\ estimators = <<>>
    /\ expected = <<>> /\ predicted = <<>> /\ r2 = NoScore
    /\ cv_results = <<>>
    /\ kfolds_built = 0
    /\ printed = Nothing
    /\ raised = ""
    /\ env = NoFaults
    /\ predict_fn = Unbound
    /\ last_call = NoCall
    /\ tasks = NoTasks

InitEst ==
    \/ Init /\ random_state = NotebookSeed /\ n_splits = 2
    \/ InitClient

\* est = LinearRegression() / ElasticNet() / Lasso() / Ridge()
ClientNew(kind) ==
    /\ pc = "client"
    /\ Len(heap) < MaxObjects
    /\ heap' = Append(heap, NewEstimator(kind))
    /\ last_call' = [op |-> "new", obj |-> Len(heap) + 1, result |-> Nothing]
    /\ raised' = ""
    /\ UNCHANGED <<pc, data_vars, np_random, split_vars, linear_regression,
                   estimators, score_vars, sweep_vars, printed, tasks>>
    /\ UNCHANGED aux_vars

\* est.fit(X=X_train, y=y_train)
ClientFit(id) ==
    /\ pc = "client"
    /\ heap' = [heap EXCEPT ![id] = fit(heap[id], X_train, y_train)]
    /\ last_call' = [op |-> "fit", obj |-> id, result |-> Nothing]
    /\ raised' = ""
    /\ UNCHANGED <<pc, data_vars, np_random, split_vars, linear_regression,
                   estimators, score_vars, sweep_vars, printed, tasks>>
    /\ UNCHANGED aux_vars

\* est.predict(X_test)
ClientPredict(id) ==
    /\ pc = "client"
    /\ LET r == predict(heap[id], X_test)
       IN  /\ last_call' = [op |-> "predict", obj |-> id, result |-> r]
           /\ raised' = IF r.kind = "error" THEN r.name ELSE ""
    /\ UNCHANGED <<pc, data_vars, np_random, split_vars, est_vars, score_vars,
                   sweep_vars, printed, tasks>>
    /\ UNCHANGED aux_vars

\* print(est.coef_); print(est.intercept_)
ClientCoef(id) ==
    /\ pc = "client"
    /\ LET r == coef_intercept(heap[id])
       IN  /\ last_call' = [op |-> "coef", obj |-> id, result |-> r]
           /\ raised' = IF r.kind = "error" THEN r.name ELSE ""
           /\ printed' = IF r.kind = "error" THEN printed ELSE r
    /\ UNCHANGED <<pc, data_vars, np_random, split_vars, est_vars, score_vars,
                   sweep_vars, tasks>>
    /\ UNCHANGED aux_vars

NextEst ==
    \/ Next
    \/ \E kind \in Kinds : ClientNew(kind)
    \/ \E id \in 1..Len(heap) : ClientFit(id)
    \/ \E id \in 1..Len(heap) : ClientPredict(id)
    \/ \E id \in 1..Len(heap) : ClientCoef(id)

SpecEst == InitEst /\ [][NextEst]_vars

(***************************************************************************)
(* Properties of the estimators (checked under SpecEst).                   *)
(***************************************************************************)
\* the two ways the library reports that fit has not run
Unfitted == {"NotFittedError", "AttributeError"}

Accessed == last_call.op \in {"predict", "coef"}

\* a predict or coef_ / intercept_ access on an unfitted instance fails and
\* the failure is the exception of the call; on a fitted one it yields values
AccessOutcome ==
    Accessed =>
        IF heap[last_call.obj].fitted
        THEN last_call.result.kind \in {"array", "params"} /\ raised = ""
        ELSE /\ last_call.result.kind = "error"
             /\ last_call.result.name \in Unfitted
             /\ raised = last_call.result.name

\* in the notebook no access fails: the instance it reads has been fitted
NotebookFitsFirst ==
    pc # "client" =>
        /\ Accessed => heap[last_call.obj].fitted
        /\ raised \notin Unfitted
        /\ \A i \in SweepRounds : \A f \in 1..Len(cv_results[i].scores) :
               cv_results[i].scores[f].kind # "error"

\* the instances a sweep iteration has just cloned and fitted
JustCloned ==
    IF Len(cv_results') = Len(cv_results) + 1
    THEN LET r == cv_results'[Len(cv_results')]
         IN  {r.objects[f] : f \in {g \in 1..Len(r.objects) : r.fresh[g]}}
    ELSE {}

\* an instance never goes back to unfitted, and becomes fitted only by fit
OnlyFitFits ==
    /\ Len(heap') >= Len(heap)
    /\ \A id \in 1..Len(heap) :
          /\ heap'[id].kind = heap[id].kind
          /\ heap[id].fitted => heap'[id].fitted
          /\ ~heap[id].fitted /\ heap'[id].fitted =>
                 last_call'.op = "fit" /\ last_call'.obj = id
    /\ \A id \in (Len(heap) + 1)..Len(heap') :
          heap'[id].fitted =>
              \/ last_call'.op = "fit" /\ last_call'.obj = id
              \/ id \in JustCloned

\* C7: predict and the coef_ / intercept_ attributes of an instance that has
\* not been fitted fail with the library's unfitted error; an instance moves
\* only from unfitted to fitted, and only by fit; every access the notebook
\* makes is to an instance that fit has been called on.
C7_UnfittedFails ==
    /\ [](AccessOutcome /\ NotebookFitsFirst)
    /\ [][OnlyFitFits]_vars

\* a client has fitted one instance and then called predict on another that
\* it never fitted
C7_Witness ==
    /\ pc = "client"
    /\ last_call.op = "predict"
    /\ ~heap[last_call.obj].fitted
    /\ last_call.result = Raised("NotFittedError")
    /\ \E id \in 1..Len(heap) : heap[id].fitted

(***************************************************************************)
(* The sweep when calls of the cross-validation raise.                     *)
(***************************************************************************)
\* per fold, the call of an evaluation that raises, if any
FaultPatterns == [1..2 -> {"none", "fit", "predict", "score"}]
                     \ {[f \in 1..2 |-> "none"]}

\* the calls that raise: one pattern, for the estimators of a non-empty set
FaultSets ==
    {{<<estimators[i][2], f, pat[f]>> : i \in E, f \in {g \in 1..2 : pat[g] # "none"}} :
        E \in (SUBSET (1..4)) \ {{}}, pat \in FaultPatterns}

InitFail ==
    /\ AtSweepCell
    /\ env \in [release : Releases, faults : FaultSets]
    /\ tasks = NoTasks

NextFail == SweepStep

SpecFail == InitFail /\ [][NextFail]_vars

(***************************************************************************)
(* Properties of the sweep under failures (checked under SpecFail).        *)
(***************************************************************************)
\* the estimators of the mapping some call of which raises
Failing == {i \in 1..Len(estimators) : \E f \in 1..n_splits :
               \E op \in {"fit", "predict", "score"} : Fails(estimators[i][2], f, op)}

Evaluated == {i \in 1..Len(estimators) :
                 \E r \in SweepRounds : cv_results[r].name = estimators[i][1]}

SweepOver == pc \in {"done", "stopped"}

\* C11 (as stated): a call that raises for one estimator aborts the
\* evaluation of that estimator and is reported; no placeholder stands for a
\* failed fold, no mean is printed from placeholders, and every estimator
\* whose calls all succeed is still evaluated.
C11_FailureScoped ==
    /\ \A r \in SweepRounds : \A f \in 1..Len(cv_results[r].scores) :
           cv_results[r].scores[f] # NaN
    /\ printed.kind = "line" => printed.mean # NaN
    /\ SweepOver =>
          /\ \A i \in 1..Len(estimators) : i \notin Failing => i \in Evaluated
          /\ \A i \in Failing : i \notin Evaluated

(***************************************************************************)
(* Frame properties of the split (checked under Spec).                     *)
(***************************************************************************)
\* the table behind the names X_train, X_test, y_train, y_test
SplitTable == IF SplitRan("cal") THEN california ELSE df_nyc

\* the positions of the table that hold the pair <<x, t>>
PositionsOf(table, x, t) ==
    {j \in 1..Len(table.X) : table.X[j] = x /\ table.y[j] = t}

PairsKept(X, y) ==
    /\ Len(X) = Len(y)
    /\ \A i \in 1..Len(X) : Cardinality(PositionsOf(SplitTable, X[i], y[i])) = 1

\* a split cell leaves the tables it reads as they were
TablesKept ==
    pc \in {"split_nyc", "split_cal"} =>
        (df_nyc' = df_nyc /\ california' = california)

\* C13: every (feature row, target) pair of the training and of the testing
\* subset is the pair at one single position of the table that was split, and
\* a split cell leaves the tables themselves as they were.
C13_SplitKeepsPairs ==
    /\ []((SplitRan("nyc") \/ SplitRan("cal")) =>
              PairsKept(X_train, y_train) /\ PairsKept(X_test, y_test))
    /\ [][TablesKept]_vars

\* the California split has run on a table with both targets, and the
\* training subset is not in table order
C13_Witness ==
    /\ pc = "confirm_cal"
    /\ SplitRan("cal")
    /\ \E i \in 1..Len(y_train) : \E j \in 1..Len(y_train) : y_train[i] # y_train[j]
    /\ \E i \in 1..Len(X_train) : X_train[i] # california.X[i]
    /\ \E i \in 2..Len(X_train) : RLt(X_train[i], X_train[i - 1])

(***************************************************************************)
(* Frame properties of the sweep (checked under Spec).                     *)
(***************************************************************************)
\* the estimators cell has run
InSweep == pc \in {"sweep", "done"}

\* C14: while the sweep runs and after it, linear_regression holds the
\* coefficient and intercept of its fit on the California training subset,
\* and the ElasticNet, Lasso and Ridge objects of the mapping are unfitted.
C14_SweepLeavesEstimators ==
    InSweep =>
        /\ estimators[1][2] = linear_regression
        /\ heap[linear_regression]
               = fit(NewEstimator("LinearRegression"), X_train, y_train)
        /\ X_train = Take(california.X, split_idx.cal.train)
        /\ \A i \in 2..Len(estimators) :
               heap[estimators[i][2]] = NewEstimator(estimators[i][1])

\* the sweep is over, and one of its fits of a LinearRegression clone gave a
\* coefficient other than the one linear_regression holds
C14_Witness ==
    /\ pc = "done"
    /\ Len(cv_results) = Len(estimators)
    /\ heap[linear_regression].fitted
    /\ \E f \in 1..n_splits :
           /\ heap[cv_results[1].objects[f]].fitted
           /\ heap[cv_results[1].objects[f]].coef # heap[linear_regression].coef

(***************************************************************************)
(* The split and its confirmation cell on tables of the real sizes: only   *)
(* the shapes of the arrays are kept.                                      *)
(***************************************************************************)
\* ave_hi_nyc_jan_1895-2018.csv: one row per January
NycSamples == 124
\* the California Housing dataset: 20,640 samples, eight features
CaliforniaSamples == 20640
CaliforniaFeatures == 8

SampleCounts == 4..MaxCount \cup {NycSamples, CaliforniaSamples}

InitConfirm ==
    /\ pc = "split_shapes"
    /\ EmptyKernel
    /\ expected = <<>> /\ predicted = <<>> /\ r2 = NoScore
    /\ \E n \in SampleCounts : \E features \in {1, CaliforniaFeatures} :
          shape = [NoShape EXCEPT !.data = <<n, features>>]

\* train_test_split(X, y, random_state=11): the shapes of X_train and X_test
SplitShapes ==
    /\ pc = "split_shapes"
    /\ shape' = [shape EXCEPT !.train = <<NTrain(shape.data[1]), shape.data[2]>>,
                              !.test = <<NTest(shape.data[1]), shape.data[2]>>]
    /\ pc' = "confirm"
    /\ UNCHANGED <<data_vars, np_random, split_vars, est_vars, score_vars,
                   sweep_vars, out_vars, ghost_vars, env, predict_fn>>

ConfirmShapes == Confirm("confirm", "confirmed")

NextConfirm == SplitShapes \/ ConfirmShapes

SpecConfirm == InitConfirm /\ [][NextConfirm]_vars

(***************************************************************************)
(* Properties of the confirmation cell (checked under SpecConfirm).        *)
(***************************************************************************)
\* C12: for the 124 NYC samples and the 20640 California samples, with one
\* feature or with eight, the confirmation cell prints exactly 75 and 25,
\* which sum to 100; and for every table the ratio of the element counts is
\* the ratio of the sample counts.
C12_SeventyFiveTwentyFive ==
    printed.kind = "confirm" =>
        /\ shape.data[1] \in {NycSamples, CaliforniaSamples} =>
              /\ printed.train.percent = [kind |-> "exact", v |-> RInt(75)]
              /\ printed.test.percent = [kind |-> "exact", v |-> RInt(25)]
              /\ RAdd(printed.train.percent.v, printed.test.percent.v) = RInt(100)
        /\ printed.train.items = shape.train[1] * shape.data[2]
        /\ printed.test.items = shape.test[1] * shape.data[2]
        /\ Norm(printed.train.items, printed.test.items)
               = Norm(shape.train[1], shape.test[1])
        /\ shape.train[1] + shape.test[1] = shape.data[1]

\* the California confirmation cell: 15480 and 5160 samples of 8 features
C12_Witness ==
    /\ pc = "confirmed"
    /\ shape.data = <<CaliforniaSamples, CaliforniaFeatures>>
    /\ printed.train.items = 123840
    /\ printed.test.items = 41280

(***************************************************************************)
(* The notebook down to the sweep cell, with the prediction cell run again *)
(* at any later moment.                                                    *)
(***************************************************************************)
InitRerun == Init /\ random_state = NotebookSeed /\ n_splits = 2

Reruns == Cardinality({i \in 1..Len(predict_fn.calls) : predict_fn.calls[i].rerun}) \div 2

\* the cell of predict(1890) and predict(2021) run once more, wherever the
\* top-to-bottom run has got to
RerunCalls ==
    /\ predict_fn.defined
    /\ pc \notin {"call_lambda", "stopped"}
    /\ Reruns < MaxReruns
    /\ \E cs \in {CallsOf(predict_fn, heap, linear_regression,
                          <<<<RInt(Year1890)>>, <<RInt(Year2021)>>>>, TRUE)} :
          /\ predict_fn' = [predict_fn EXCEPT !.calls = @ \o cs]
          /\ printed' = [kind |-> "predictions",
                         of |-> [i \in 1..Len(cs) |-> cs[i].result.v]]
    /\ UNCHANGED <<pc, data_vars, np_random, split_vars, est_vars, score_vars,
                   sweep_vars, raised, ghost_vars, env, shape>>

\* the cells above the sweep, top to bottom, and the cell run again
NextRerun ==
    \/ LoadNyc \/ SplitNyc \/ ConfirmNyc \/ FitNyc \/ CoefNyc \/ PredictNyc
    \/ DefineLambda \/ CallLambda \/ PlotLine
    \/ LoadCal \/ SplitCal \/ ConfirmCal \/ FitCal \/ CoefCal \/ PredictCal
    \/ R2Cell \/ EstimatorsCell
    \/ RerunCalls

SpecRerun == InitRerun /\ [][NextRerun]_vars

(***************************************************************************)
(* Properties of the lambda (checked under SpecRerun).                     *)
(***************************************************************************)
\* slope * x + intercept of an estimator, element by element
LineOf(est, xs) == [i \in 1..Len(xs) |-> RAdd(RMul(est.coef, xs[i]), est.intercept)]

\* the LinearRegression fitted on the NYC training subset
NycModel ==
    fit(NewEstimator("LinearRegression"), Take(df_nyc.X, split_idx.nyc.train),
        Take(df_nyc.y, split_idx.nyc.train))

\* C15: a call of the lambda computes slope * x + intercept of the object the
\* name linear_regression is bound to when the call runs; every call of the
\* top-to-bottom run (predict(1890), predict(2021), predict(x) of the plot)
\* runs while the name is bound to the estimator fitted on the NYC training
\* subset, and returns what predict of that estimator returns for x.
C15_LambdaReadsAtCall ==
    \A i \in 1..Len(predict_fn.calls) :
        LET c == predict_fn.calls[i]
        IN  /\ c.result.kind = "array"
            /\ c.result.v = LineOf(heap[c.bound], c.x)
            /\ ~c.rerun =>
                  /\ heap[c.bound] = NycModel
                  /\ c.bound = 1
                  /\ c.result = predict(heap[c.bound], c.x)
            /\ c.rerun /\ linear_regression = c.bound =>
                  c.result = predict(heap[linear_regression], c.x)

\* after the three calls of the top-to-bottom run, the prediction cell is run
\* again when linear_regression is bound to the California estimator, and
\* returns another value for 1890 than the NYC estimator gives
C15_Witness ==
    /\ Len(predict_fn.calls) = 5
    /\ ~predict_fn.calls[3].rerun
    /\ Len(predict_fn.calls[3].x) = 2
    /\ predict_fn.calls[4].rerun
    /\ predict_fn.calls[4].bound = 2
    /\ predict_fn.calls[4].result.v # LineOf(heap[1], predict_fn.calls[4].x)
    /\ predict_fn.calls[1].result.v = LineOf(heap[1], <<RInt(Year1890)>>)

====
